---------------------------- MODULE Spec2Model ----------------------------
(***************************************************************************)
(* A model of the godrop IRC client (package godrop, client.go): the       *)
(* Client's connection lifecycle, the blocking Loop with its PING / ERROR  *)
(* handling and hook dispatch, and the senders, Message's line splitting   *)
(* included.                                                               *)
(*                                                                         *)
(* Strings are sequences of byte codes, so that lengths, slices and        *)
(* concatenations are computed as the Go code computes them.  A command    *)
(* is kept as a TLA+ string and turned to bytes when a line is encoded.    *)
(***************************************************************************)
EXTENDS Integers, Sequences, FiniteSets, TLC

(***************************************************************************)
(* Bounds of the model.                                                    *)
(***************************************************************************)
\* Longest body handed to Message in SpecMessage (two full chunks and more).
MaxBodyLen == 801
\* Longest target handed to Message in SpecMessage.
MaxTargetLen == 600
\* Number of hooks the plugins' init functions register at most.
MaxHooks == 2
\* Number of sockets Connect may dial in one behaviour.
MaxSockets == 2

(***************************************************************************)
(* Bytes and strings.                                                      *)
(***************************************************************************)
SP == 32
COLON == 58
CR == 13
LF == 10
CRLF == <<CR, LF>>

\* The commands of the frames the Client builds or compares, as bytes.
CmdBytes(cmd) ==
  CASE cmd = "PING"    -> <<80, 73, 78, 71>>
    [] cmd = "PONG"    -> <<80, 79, 78, 71>>
    [] cmd = "ERROR"   -> <<69, 82, 82, 79, 82>>
    [] cmd = "PRIVMSG" -> <<80, 82, 73, 86, 77, 83, 71>>
    [] cmd = "NOTICE"  -> <<78, 79, 84, 73, 67, 69>>
    [] cmd = "NICK"    -> <<78, 73, 67, 75>>
    [] cmd = "USER"    -> <<85, 83, 69, 82>>
    [] cmd = "JOIN"    -> <<74, 79, 73, 78>>
    [] cmd = "QUIT"    -> <<81, 85, 73, 84>>
    [] cmd = "OPER"    -> <<79, 80, 69, 82>>
    [] cmd = "MODE"    -> <<77, 79, 68, 69>>
    [] cmd = "001"     -> <<48, 48, 49>>
    [] OTHER           -> <<63>>

\* The strings of a sequence, joined in order.
RECURSIVE Flatten(_)
Flatten(ss) == IF ss = <<>> THEN <<>> ELSE Head(ss) \o Flatten(Tail(ss))

(***************************************************************************)
(* The frame codec (github.com/horgh/irc), as far as the Client uses it.   *)
(***************************************************************************)
\* The protocol's hard limit on a line, CRLF included.
MaxLineLength == 512

ErrNil == "nil"
ErrTruncated == "truncated"
ErrEncode == "encode"
ErrIO == "io"
ErrParse == "parse"
ErrClose == "close"
ErrPanic == "panic"
ErrDial == "dial"

\* A parameter is written with a leading colon when it is empty, holds a
\* space or starts with a colon; such a parameter must be the last one.
NeedsColon(param) ==
  \/ param = <<>>
  \/ param[1] = COLON
  \/ \E i \in 1..Len(param) : param[i] = SP

RECURSIVE EncodeParams(_, _, _)
EncodeParams(s, params, i) ==
  IF i > Len(params)
  THEN [buf |-> s \o CRLF, err |-> ErrNil]
  ELSE LET colon == NeedsColon(params[i])
           param == IF colon THEN <<COLON>> \o params[i] ELSE params[i]
           last  == i = Len(params)
       IN  IF colon /\ ~last
           THEN [buf |-> <<>>, err |-> ErrEncode]
           ELSE IF Len(s) + 1 + Len(param) + 2 > MaxLineLength
           THEN IF last
                THEN LET avail == MaxLineLength - (Len(s) + 1 + 2)
                     IN  [buf |-> (IF avail > 0
                                   THEN s \o <<SP>> \o SubSeq(param, 1, avail)
                                   ELSE s) \o CRLF,
                          err |-> ErrTruncated]
                ELSE [buf |-> <<>>, err |-> ErrEncode]
           ELSE EncodeParams(s \o <<SP>> \o param, params, i + 1)

\* Message.Encode: the wire line of a frame, cut to MaxLineLength with
\* ErrTruncated when it would be longer, or an error.
Encode(m) ==
  IF Len(CmdBytes(m.cmd)) + 2 > MaxLineLength
  THEN [buf |-> <<>>, err |-> ErrEncode]
  ELSE EncodeParams(CmdBytes(m.cmd), m.params, 1)


(***************************************************************************)
(* State.                                                                  *)
(***************************************************************************)
VARIABLES
  pc,          \* "startup" | "idle" | "loop" | "dispatch" | "panicked"
  inLoop,      \* Loop was called and has not returned
  conn,        \* Client.conn: 0 is nil, otherwise the socket it refers to
  rw,          \* Client.rw: 0 is nil, otherwise the socket it wraps
  registered,  \* Client.registered
  identity,    \* Client.nick, Client.name and Client.ident
  timeoutTime, \* Client.timeoutTime, in minutes
  Hooks,       \* the package-level registry: a sequence of hooks
  open,        \* the sockets dialed and not closed
  dialed,      \* the number of sockets dialed so far
  msg,         \* Loop's msg: the frame of the current iteration
  hookIdx,     \* Client.hooks: how many hooks of the range have been called
  lastRead,    \* outcome of Loop's last ReadMessage
  buf,         \* the line of Loop's last ReadMessage when its parse failed
  readOps,     \* the transport operations of Loop's last read
  events,      \* what the running call (for Loop: its current iteration) did
  results,     \* the value each WriteMessage of the last sender returned
  lastCall,    \* the last method called by the program or by a hook
  lastErr,     \* what the last method that returned has returned (nil when
               \* Loop is entered)
  usernameStreaming, \* twitchstreams: the result recorded for each user polled
  lastPollTime,      \* twitchstreams: when the last poll began, in minutes
  polled       \* the last call of pollStreams: whether it polled, what the
               \* requests brought, how many calls of Message it made

config == <<identity, timeoutTime>>
client == <<conn, rw, registered, config>>
sockets == <<open, dialed>>
loopv == <<msg, hookIdx, lastRead, buf, readOps>>
twitch == <<usernameStreaming, lastPollTime, polled>>
vars == <<pc, inLoop, conn, rw, registered, identity, timeoutTime, Hooks, open,
          dialed, msg, hookIdx, lastRead, buf, readOps, events, results,
          lastCall, lastErr, usernameStreaming, lastPollTime, polled>>

\* The identity of a Client that was not made yet.
NoId == [nick |-> <<>>, name |-> <<>>, ident |-> <<>>]

NoMsg == [cmd |-> "", params |-> <<>>]
NoCall == [op |-> "", target |-> <<>>, message |-> <<>>]
Call(op) == [op |-> op, target |-> <<>>, message |-> <<>>]

\* One operation on the transport: SetDeadline with the duration d added to
\* the time of the call, ReadString, WriteString or Flush, and whether it
\* succeeded.
TOp(op, d, ok) == [op |-> op, d |-> d, ok |-> ok]

\* One entry of events; ops are the transport operations of a write.
Ev(kind, hook, m, line) ==
  [kind |-> kind, hook |-> hook, m |-> m, line |-> line, ops |-> <<>>]
WriteEv(m, line) == Ev("write", "", m, line)
FailEv(m) == Ev("writefail", "", m, <<>>)
HookEv(hook, m) == Ev("hook", hook, m, <<>>)
CloseEv == Ev("close", "", NoMsg, <<>>)
\* One dial of Connect, and whether it gave a connection.
DialEv(ok) == Ev(IF ok THEN "dial" ELSE "dialfail", "", NoMsg, <<>>)

\* The default of Client.timeoutTime, in minutes.
timeoutTimeDefault == 5

\* The outcomes of one transport operation: done, SetDeadline failed, or the
\* read / write / flush failed (deadline expiry and EOF included).
IOOutcomes == {"ok", "deadline", "ioerr"}

(***************************************************************************)
(* Writing.                                                                *)
(***************************************************************************)
\* write setting the deadline from the default, not from Client.timeoutTime.
writeDefaultDeadline(s, m, io) ==
  LET arm == TOp("SetDeadline", timeoutTimeDefault, io # "deadline")
  IN  IF conn = 0
      THEN [err |-> ErrPanic, ev |-> <<>>]
      ELSE IF io = "deadline"
      THEN [err |-> ErrIO, ev |-> <<[FailEv(m) EXCEPT !.ops = <<arm>>]>>]
      ELSE IF io = "ioerr"
      THEN [err |-> ErrIO,
            ev |-> <<[FailEv(m) EXCEPT
                        !.ops = <<arm, TOp("WriteString", 0, FALSE)>>]>>]
      ELSE [err |-> ErrNil,
            ev |-> <<[WriteEv(m, s) EXCEPT
                        !.ops = <<arm, TOp("WriteString", 0, TRUE),
                                  TOp("Flush", 0, TRUE)>>]>>]

\* Client.write: a nil conn is dereferenced (a panic); a failed SetDeadline,
\* WriteString or Flush is returned and the line does not reach the peer.
write(s, m, io) ==
  LET arm == TOp("SetDeadline", timeoutTime, io # "deadline")
  IN  IF conn = 0
      THEN [err |-> ErrPanic, ev |-> <<>>]
      ELSE IF io = "deadline"
      THEN [err |-> ErrIO, ev |-> <<[FailEv(m) EXCEPT !.ops = <<arm>>]>>]
      ELSE IF io = "ioerr"
      THEN [err |-> ErrIO,
            ev |-> <<[FailEv(m) EXCEPT
                        !.ops = <<arm, TOp("WriteString", 0, FALSE)>>]>>]
      ELSE [err |-> ErrNil,
            ev |-> <<[WriteEv(m, s) EXCEPT
                        !.ops = <<arm, TOp("WriteString", 0, TRUE),
                                  TOp("Flush", 0, TRUE)>>]>>]

\* Client.read: the deadline is set, then a line is read; the operations
\* made for an outcome of the read.
read(io) ==
  LET arm == TOp("SetDeadline", timeoutTime, io # "deadline")
  IN  IF io = "deadline"
      THEN <<arm>>
      ELSE <<arm, TOp("ReadString", 0, io # "ioerr")>>

\* WriteMessage returning every error of Encode, ErrTruncated included.
WriteMessageStrict(m, io) ==
  LET e == Encode(m)
  IN  IF e.err # ErrNil
      THEN [err |-> ErrEncode, ev |-> <<>>]
      ELSE write(e.buf, m, io)

\* Client.WriteMessage: a truncated line is written as it is.
WriteMessage(m, io) ==
  LET e == Encode(m)
  IN  IF e.err # ErrNil /\ e.err # ErrTruncated
      THEN [err |-> ErrEncode, ev |-> <<>>]
      ELSE write(e.buf, m, io)

\* Pong echoing the PING's last parameter instead of its first.
PongLast(ping, io) ==
  IF ping.params = <<>>
  THEN [err |-> ErrPanic, ev |-> <<>>]
  ELSE WriteMessage([cmd |-> "PONG",
                     params |-> <<ping.params[Len(ping.params)]>>], io)

\* Pong returning an error for a PING that has no parameter.
PongChecked(ping, io) ==
  IF ping.params = <<>>
  THEN [err |-> ErrEncode, ev |-> <<>>]
  ELSE WriteMessage([cmd |-> "PONG", params |-> <<ping.params[1]>>], io)

\* Client.Pong: the first parameter is read without a check.
Pong(ping, io) ==
  IF ping.params = <<>>
  THEN [err |-> ErrPanic, ev |-> <<>>]
  ELSE WriteMessage([cmd |-> "PONG", params |-> <<ping.params[1]>>], io)

Join(name, io) == WriteMessage([cmd |-> "JOIN", params |-> <<name>>], io)
Quit(message, io) == WriteMessage([cmd |-> "QUIT", params |-> <<message>>], io)
Oper(name, password, io) ==
  WriteMessage([cmd |-> "OPER", params |-> <<name, password>>], io)
UserMode(nick, modes, io) ==
  WriteMessage([cmd |-> "MODE", params |-> <<nick, modes>>], io)

\* The errors Nick and User make of the error of their WriteMessage.
NickError(err) == "failed to send NICK: " \o err
UserError(err) == "failed to send USER: " \o err

\* Client.Nick.
Nick(io) ==
  LET w == WriteMessage([cmd |-> "NICK", params |-> <<identity.nick>>], io)
  IN  IF w.err \in {ErrNil, ErrPanic} THEN w
      ELSE [w EXCEPT !.err = NickError(w.err)]

\* Client.User.
User(io) ==
  LET w == WriteMessage([cmd |-> "USER",
                         params |-> <<identity.ident, <<48>>, <<42>>,
                                      identity.name>>], io)
  IN  IF w.err \in {ErrNil, ErrPanic} THEN w
      ELSE [w EXCEPT !.err = UserError(w.err)]

\* Register going on to User when Nick has failed.
RegisterIgnoresNick(ioNick, ioUser) ==
  LET n == Nick(ioNick)
      u == User(ioUser)
  IN  IF n.err = ErrPanic
      THEN [err |-> n.err, ev |-> n.ev, res |-> <<n.err>>]
      ELSE [err |-> u.err, ev |-> n.ev \o u.ev, res |-> <<n.err, u.err>>]

\* Client.Register: Nick, and User when Nick returned nil.  res holds what
\* Nick and User returned.
Register(ioNick, ioUser) ==
  LET n == Nick(ioNick)
      u == User(ioUser)
  IN  IF n.err # ErrNil
      THEN [err |-> n.err, ev |-> n.ev, res |-> <<n.err>>]
      ELSE [err |-> u.err, ev |-> n.ev \o u.ev, res |-> <<n.err, u.err>>]

(***************************************************************************)
(* Message: a body is sent in pieces of maxMessage - overhead bytes.       *)
(***************************************************************************)
\* maxMessage set to the protocol's whole line length.
maxMessageWholeLine == MaxLineLength
maxMessage == 412

\* overhead without the line terminator.
overheadNoCRLF == Len("PRIVMSG ") + Len(" :")
overhead == Len("PRIVMSG ") + Len(" :") + Len("\r\n")

Min(a, b) == IF a < b THEN a ELSE b

\* The piece message[i:endIndex] of one iteration (i counts from 0).
Piece(message, i) ==
  LET endIndex == Min(i + maxMessage - overhead, Len(message))
  IN  SubSeq(message, i + 1, endIndex)

\* The for loop of Message from index i on, k writes having been made; the
\* write number failAt fails (0: none does; -n: the SetDeadline of write
\* number n fails).  res collects what WriteMessage
\* returned; the loop is left at the first error, and nil is returned.
RECURSIVE MessageLoop(_, _, _, _, _, _)
MessageLoop(target, message, i, k, failAt, acc) ==
  IF i < Len(message)
  THEN LET w == WriteMessage([cmd |-> "PRIVMSG",
                              params |-> <<target, Piece(message, i)>>],
                             IF k + 1 = failAt THEN "ioerr"
                             ELSE IF k + 1 = -failAt THEN "deadline"
                             ELSE "ok")
           now == [err |-> ErrNil, ev |-> acc.ev \o w.ev,
                   res |-> Append(acc.res, w.err)]
       IN  IF w.err = ErrPanic
           THEN [now EXCEPT !.err = ErrPanic]
           ELSE IF w.err # ErrNil
           THEN now
           ELSE MessageLoop(target, message, i + maxMessage - overhead, k + 1,
                            failAt, now)
  ELSE acc

\* Message returning the error of the write that failed.
MessageReturnsWriteError(target, message, failAt) ==
  LET r == MessageLoop(target, message, 0, 0, failAt,
                       [err |-> ErrNil, ev |-> <<>>, res |-> <<>>])
  IN  IF r.err = ErrNil /\ r.res # <<>>
      THEN [r EXCEPT !.err = r.res[Len(r.res)]]
      ELSE r

\* Client.Message.
Message(target, message, failAt) ==
  MessageLoop(target, message, 0, 0, failAt,
              [err |-> ErrNil, ev |-> <<>>, res |-> <<>>])


(***************************************************************************)
(* The methods a program or a hook calls on the Client.  A call is a       *)
(* record [op, target, message]; failAt is the number of the write that    *)
(* fails in it (0: none; -n: the SetDeadline of write number n fails),     *)
(* closeOk whether the socket's Close succeeds.                            *)
(* ApiCall gives the Client's fields after the call, what it returned and  *)
(* what it did.                                                            *)
(***************************************************************************)
Out(err, ev, res) ==
  [conn |-> conn, rw |-> rw, registered |-> registered, open |-> open,
   err |-> err, ev |-> ev, res |-> res, next |-> ""]

IoOf(failAt) ==
  IF failAt = 1 THEN "ioerr" ELSE IF failAt = -1 THEN "deadline" ELSE "ok"
\* failAt for the writes after the first.
Rest(failAt) ==
  IF failAt > 0 THEN failAt - 1 ELSE IF failAt < 0 THEN failAt + 1 ELSE 0

\* Close returning a failed conn.Close() before conn is cleared.
CloseKeepsFailedConn(closeOk) ==
  [Out(IF conn # 0 /\ ~closeOk THEN ErrClose ELSE ErrNil,
       IF conn # 0 THEN <<CloseEv>> ELSE <<>>, <<>>)
     EXCEPT !.registered = FALSE, !.rw = 0,
            !.conn = IF closeOk THEN 0 ELSE conn,
            !.open = open \ {conn}]

\* Close calling conn.Close() without the nil check.
CloseWithoutNilCheck(closeOk) ==
  IF conn = 0
  THEN [Out(ErrPanic, <<>>, <<>>) EXCEPT !.registered = FALSE, !.rw = 0]
  ELSE [Out(IF ~closeOk THEN ErrClose ELSE ErrNil, <<CloseEv>>, <<>>)
          EXCEPT !.registered = FALSE, !.rw = 0, !.conn = 0,
                 !.open = open \ {conn}]

\* Client.Close: the flag and rw are cleared; conn is closed when there is
\* one and cleared whatever its Close returns.
Close(closeOk) ==
  [Out(IF conn # 0 /\ ~closeOk THEN ErrClose ELSE ErrNil,
       IF conn # 0 THEN <<CloseEv>> ELSE <<>>, <<>>)
     EXCEPT !.registered = FALSE, !.rw = 0, !.conn = 0,
            !.open = open \ {conn}]

\* Client.SetRegistered.
SetRegistered == [Out(ErrNil, <<>>, <<>>) EXCEPT !.registered = TRUE]

OfWrite(w) == Out(w.err, w.ev, <<w.err>>)

ApiCall(a, failAt, closeOk) ==
  CASE a.op = "Join"     -> OfWrite(Join(a.target, IoOf(failAt)))
    [] a.op = "Quit"     -> OfWrite(Quit(a.message, IoOf(failAt)))
    [] a.op = "Oper"     -> OfWrite(Oper(a.target, a.message, IoOf(failAt)))
    [] a.op = "UserMode" -> OfWrite(UserMode(a.target, a.message, IoOf(failAt)))
    [] a.op = "Message"  ->
         LET r == Message(a.target, a.message, failAt)
         IN  Out(r.err, r.ev, r.res)
    [] a.op = "Register" ->
         LET r == Register(IoOf(failAt), IoOf(Rest(failAt)))
         IN  Out(r.err, r.ev, r.res)
    [] a.op = "SetRegistered" -> SetRegistered
    [] a.op = "Close"    -> Close(closeOk)
    [] OTHER             -> Out(ErrNil, <<>>, <<>>)

(***************************************************************************)
(* What the environment supplies: the frames the server sends, the hooks   *)
(* the plugins register, the calls a program or a hook makes.              *)
(***************************************************************************)
Chan == <<35, 99>>
Hello == <<104, 105, SP, 121, 111, 117>>
Xyz123 == <<120, 121, 122, 49, 50, 51>>

\* A string of n bytes without a space.
Plain(n) == [i \in 1..n |-> 97 + (i % 26)]
\* A string of n bytes with a space in every fifth place.
Spaced(n) == [i \in 1..n |-> IF i % 5 = 0 THEN SP ELSE 97 + (i % 26)]

\* The identity the program gives to New: "bot", "go drop", "gd".
DefaultId ==
  [nick |-> <<98, 111, 116>>,
   name |-> <<103, 111, SP, 100, 114, 111, 112>>,
   ident |-> <<103, 100>>]

\* The frames read: PING with and without a parameter, ERROR, the welcome
\* reply and a channel message.
InFrames ==
  {[cmd |-> "PING", params |-> <<>>],
   [cmd |-> "PING", params |-> <<Xyz123>>],
   [cmd |-> "PING", params |-> <<Hello, Chan>>],
   [cmd |-> "ERROR", params |-> <<Hello>>],
   [cmd |-> "001", params |-> <<Xyz123, Hello>>],
   [cmd |-> "PRIVMSG", params |-> <<Chan, Hello>>]}

HookIds == {"oper", "recordips", "twitchstreams"}

\* The calls of the program and of the hooks in Spec.
Calls ==
  {[op |-> "Join", target |-> Chan, message |-> <<>>],
   [op |-> "Quit", target |-> <<>>, message |-> Hello],
   [op |-> "Oper", target |-> Xyz123, message |-> Xyz123],
   [op |-> "UserMode", target |-> Xyz123, message |-> Chan],
   [op |-> "Message", target |-> Chan, message |-> Hello],
   [op |-> "Register", target |-> <<>>, message |-> <<>>],
   [op |-> "SetRegistered", target |-> <<>>, message |-> <<>>],
   [op |-> "Close", target |-> <<>>, message |-> <<>>]}

\* The write of a call that fails: none or the first (the bodies of Calls
\* fit one line), for Register none, the NICK or the USER.
FailAts(a) ==
  IF a.op \in {"Join", "Quit", "Oper", "UserMode", "Message"}
  THEN 0..1
  ELSE IF a.op = "Register" THEN 0..2 ELSE {0}
\* Whether the socket's Close succeeds, for the calls that close.
CloseOks(a) == IF a.op = "Close" THEN BOOLEAN ELSE {TRUE}

(***************************************************************************)
(* The twitchstreams plugin: its hook polls the streams of the configured  *)
(* users at most every durationBetweenPolls and announces to the           *)
(* configured channels the users who started streaming; a !twitch message  *)
(* is answered with the streams of the users asked for.                    *)
(***************************************************************************)
\* strings.ToLower, on ASCII.
ToLower(s) == [i \in 1..Len(s) |-> IF s[i] \in 65..90 THEN s[i] + 32 ELSE s[i]]

\* unicode.IsSpace, on ASCII.
IsSpace(b) == b \in {9, 10, 11, 12, 13, SP}

\* strings.TrimSpace.
TrimSpace(s) ==
  LET keep == {i \in 1..Len(s) : ~IsSpace(s[i])}
  IN  IF keep = {} THEN <<>>
      ELSE SubSeq(s, CHOOSE i \in keep : \A j \in keep : i <= j,
                     CHOOSE i \in keep : \A j \in keep : i >= j)

\* strings.Fields: the maximal runs of bytes that are not spaces.
RECURSIVE Fields(_)
Fields(s) ==
  IF s = <<>> THEN <<>>
  ELSE IF IsSpace(s[1]) THEN Fields(Tail(s))
  ELSE LET ends == {i \in 1..Len(s) : IsSpace(s[i])} \cup {Len(s) + 1}
           n    == CHOOSE i \in ends : \A j \in ends : i <= j
       IN  <<SubSeq(s, 1, n - 1)>> \o Fields(SubSeq(s, n, Len(s)))

\* The configuration of the program: two users, one of them named twice
\* ("Bob amy  bob"), two channels ("#c #tv") and a client ID.
Config ==
  [k \in {"twitchstreams-users", "twitchstreams-channels",
          "twitchstreams-client-id"} |->
     CASE k = "twitchstreams-users" ->
            <<66, 111, 98, SP, 97, 109, 121, SP, SP, 98, 111, 98>>
       [] k = "twitchstreams-channels" -> <<35, 99, SP, 35, 116, 118>>
       [] OTHER -> <<97, 98, 99, 49, 50, 51>>]

\* getDefaultUsers: the users of the configuration in lower case, each once.
RECURSIVE Unique(_, _)
Unique(us, users) ==
  IF us = <<>> THEN users
  ELSE LET u == ToLower(TrimSpace(Head(us)))
       IN  IF u = <<>> \/ \E i \in 1..Len(users) : users[i] = u
           THEN Unique(Tail(us), users)
           ELSE Unique(Tail(us), Append(users, u))
getDefaultUsers(cfg) == Unique(Fields(cfg["twitchstreams-users"]), <<>>)

\* The users and the channels of the configuration.
DefaultUsers == getDefaultUsers(Config)
Channels == Fields(Config["twitchstreams-channels"])

\* The titles of the streams the service reports, and what a request to it
\* is answered: an error, or the streams of the user.
Live == <<108, 105, 118, 101>>
Chess == <<99, 104, 101, 115, 115>>
Failed == [err |-> TRUE, streams |-> <<>>]
Streams(titles) == [err |-> FALSE, streams |-> titles]

\* getStreams: answer is what the request for the user's streams brings.
getStreams(clientID, username, answer) ==
  IF TrimSpace(clientID) = <<>> \/ ToLower(TrimSpace(username)) = <<>>
  THEN Failed
  ELSE answer

durationBetweenPolls == 10

\* The texts of the plugin's messages.
IsStreaming ==
  <<SP, 105, 115, SP, 115, 116, 114, 101, 97, 109, 105, 110, 103, COLON, SP>>
IsNotStreaming ==
  <<SP, 105, 115, SP, 110, 111, 116, SP, 115, 116, 114, 101, 97, 109, 105,
    110, 103>>
ErrorRetrieving ==
  <<101, 114, 114, 111, 114, SP, 114, 101, 116, 114, 105, 101, 118, 105, 110,
    103, SP, 115, 116, 114, 101, 97, 109, 115, SP, 102, 111, 114, SP>>
ErrorLookingUp ==
  <<101, 114, 114, 111, 114, SP, 108, 111, 111, 107, 105, 110, 103, SP, 117,
    112, SP, 115, 116, 114, 101, 97, 109, 115>>

Send(target, message) == [target |-> target, message |-> message]

\* The calls of Message that tell of username's streams to target.
StreamLines(target, username, streams) ==
  [i \in 1..Len(streams) |-> Send(target, username \o IsStreaming \o streams[i])]

\* The calls of Message of an announcement: for each channel, each stream.
RECURSIVE Announcement(_, _, _)
Announcement(chs, username, streams) ==
  IF chs = <<>> THEN <<>>
  ELSE StreamLines(Head(chs), username, streams)
         \o Announcement(Tail(chs), username, streams)

\* The element of a singleton; a value bound through a set is computed once.
The(S) == CHOOSE v \in S : TRUE

\* The calls of Message in sends made in order, sent of the hook's calls
\* having been made before; the hook's call number failAt fails in its
\* write.  What Message returns is dropped; a panic ends the hook.  acc
\* holds what was written, the last call and what its writes returned.
RECURSIVE SendAll(_, _, _, _)
SendAll(sends, sent, failAt, acc) ==
  IF sends = <<>> \/ acc.err = ErrPanic THEN acc
  ELSE The({SendAll(Tail(sends), sent + 1, failAt,
                    [err |-> IF r.err = ErrPanic THEN ErrPanic ELSE ErrNil,
                     ev |-> a.ev \o r.ev, res |-> r.res,
                     last |-> [op |-> "Message",
                               target |-> Head(sends).target,
                               message |-> Head(sends).message]]) :
              a \in {acc},
              r \in {Message(Head(sends).target, Head(sends).message,
                              IF sent + 1 = failAt THEN 1 ELSE 0)}})

\* m[k] = v of a Go map.
Put(m, k, v) == [x \in DOMAIN m \cup {k} |-> IF x = k THEN v ELSE m[x]]

\* One iteration of pollStreams announcing a user seen streaming for the
\* first time.
pollUserAnnouncesFirst(username, streams, recorded) ==
  IF streams.err
  THEN [stop |-> TRUE, recorded |-> recorded, announce |-> FALSE]
  ELSE IF Len(streams.streams) = 0
  THEN [stop |-> FALSE, recorded |-> Put(recorded, username, FALSE),
        announce |-> FALSE]
  ELSE IF username \in DOMAIN recorded /\ recorded[username]
  THEN [stop |-> FALSE, recorded |-> recorded, announce |-> FALSE]
  ELSE [stop |-> FALSE, recorded |-> Put(recorded, username, TRUE),
        announce |-> TRUE]

\* One iteration of pollStreams's loop over the users, recorded being
\* usernameStreaming: a failed request ends the poll; no stream is recorded
\* as false; a user polled for the first time, or recorded as streaming, is
\* recorded as true without a word; a user recorded as not streaming is
\* recorded as true and announced.
pollUser(username, streams, recorded) ==
  IF streams.err
  THEN [stop |-> TRUE, recorded |-> recorded, announce |-> FALSE]
  ELSE IF Len(streams.streams) = 0
  THEN [stop |-> FALSE, recorded |-> Put(recorded, username, FALSE),
        announce |-> FALSE]
  ELSE IF username \notin DOMAIN recorded
  THEN [stop |-> FALSE, recorded |-> Put(recorded, username, TRUE),
        announce |-> FALSE]
  ELSE IF recorded[username]
  THEN [stop |-> FALSE, recorded |-> recorded, announce |-> FALSE]
  ELSE [stop |-> FALSE, recorded |-> Put(recorded, username, TRUE),
        announce |-> TRUE]

\* The rest of an iteration of pollStreams's loop: the announcement when u
\* says so.  acc holds usernameStreaming and what was asked and sent so far.
announce(username, streams, u, failAt, acc) ==
  LET sends == IF u.announce
               THEN Announcement(Channels, username, streams.streams)
               ELSE <<>>
  IN  The({[recorded |-> u.recorded,
            found |-> Put(acc.found, username, streams),
            sent |-> acc.sent + Len(sends),
            ev |-> acc.ev \o r.ev, err |-> r.err,
            res |-> r.res, last |-> r.last] :
             r \in {SendAll(sends, acc.sent, failAt,
                            [err |-> ErrNil, ev |-> <<>>,
                             res |-> acc.res, last |-> acc.last])}})

\* pollStreams's loop over users; answers is what each request brings.
RECURSIVE pollUsers(_, _, _, _)
pollUsers(users, answers, failAt, acc) ==
  IF users = <<>> \/ acc.err = ErrPanic THEN acc
  ELSE The({The({The({IF u.stop THEN now
                      ELSE pollUsers(Tail(users), answers, failAt, now) :
                        now \in {announce(Head(users), streams, u, failAt,
                                          a)}}) :
                   u \in {pollUser(Head(users), streams, a.recorded)}}) :
              a \in {acc},
              streams \in {getStreams(Config["twitchstreams-client-id"],
                                      Head(users), answers[Head(users)])}})

\* No poll was made.
NoPoll == [ran |-> FALSE, found |-> <<>>, sent |-> 0]

\* pollStreams at the time now: nothing when the last poll began less than
\* durationBetweenPolls ago.
pollStreams(now, answers, failAt) ==
  IF now - lastPollTime < durationBetweenPolls
  THEN [recorded |-> usernameStreaming, lastPollTime |-> lastPollTime,
        sent |-> 0, ev |-> <<>>, err |-> ErrNil,
        res |-> results, last |-> lastCall,
        polled |-> NoPoll]
  ELSE The({[recorded |-> r.recorded, lastPollTime |-> now,
             sent |-> r.sent, ev |-> r.ev, err |-> r.err,
             res |-> r.res, last |-> r.last,
             polled |-> [ran |-> TRUE, found |-> r.found, sent |-> r.sent]] :
              r \in {pollUsers(DefaultUsers, answers, failAt,
                               [recorded |-> usernameStreaming,
                                found |-> <<>>, sent |-> 0, ev |-> <<>>,
                                err |-> ErrNil, res |-> results,
                                last |-> lastCall])}})

\* outputStreams: the calls of Message that answer for usernames, up to the
\* first request that fails.
RECURSIVE outputStreams(_, _, _)
outputStreams(target, usernames, answers) ==
  IF usernames = <<>> THEN <<>>
  ELSE LET username == Head(usernames)
           streams  == getStreams(Config["twitchstreams-client-id"],
                                  username, answers[username])
       IN  IF streams.err
           THEN <<Send(target, ErrorRetrieving \o username \o <<COLON, SP>>
                                 \o ErrorLookingUp)>>
           ELSE IF Len(streams.streams) = 0
           THEN <<Send(target, username \o IsNotStreaming)>>
                  \o outputStreams(target, Tail(usernames), answers)
           ELSE StreamLines(target, username, streams.streams)
                  \o outputStreams(target, Tail(usernames), answers)

\* triggerTwitch: the users named in args, or the configured ones.
triggerTwitch(target, args, answers) ==
  outputStreams(target,
                IF args # <<>> THEN Fields(args) ELSE DefaultUsers,
                answers)

\* The bytes \s of a regular expression matches.
IsReSpace(b) == b \in {9, 10, 12, 13, SP}
RECURSIVE SkipSpace(_)
SkipSpace(s) ==
  IF s # <<>> /\ IsReSpace(s[1]) THEN SkipSpace(Tail(s)) ELSE s

\* triggerRE.FindStringSubmatch: (?i)^\s*[!.]twitch\s*(.*)
triggerRE(text) ==
  LET t == SkipSpace(text)
  IN  IF /\ Len(t) >= 7
         /\ t[1] \in {33, 46}
         /\ ToLower(SubSeq(t, 2, 7)) = <<116, 119, 105, 116, 99, 104>>
      THEN [matched |-> TRUE, args |-> SkipSpace(SubSeq(t, 8, Len(t)))]
      ELSE [matched |-> FALSE, args |-> <<>>]

\* The package's variables before any poll: an empty map, the zero time.
twitchstreamsInit ==
  /\ usernameStreaming = <<>>
  /\ lastPollTime = 0
  /\ polled = NoPoll

(***************************************************************************)
(* Actions.                                                                *)
(***************************************************************************)
Init ==
  /\ pc = "startup" /\ inLoop = FALSE
  /\ conn = 0 /\ rw = 0 /\ registered = FALSE
  /\ identity = NoId /\ timeoutTime = 0
  /\ Hooks = <<>>
  /\ twitchstreamsInit
  /\ open = {} /\ dialed = 0
  /\ msg = NoMsg /\ hookIdx = 0 /\ lastRead = ""
  /\ buf = "" /\ readOps = <<>>
  /\ events = <<>> /\ results = <<>>
  /\ lastCall = NoCall /\ lastErr = ErrNil

\* A plugin's init function putting its Hook in front of the others.
PluginInitPrepends(h) ==
  /\ pc = "startup"
  /\ Len(Hooks) < MaxHooks
  /\ \A i \in 1..Len(Hooks) : Hooks[i] # h
  /\ Hooks' = <<h>> \o Hooks
  /\ UNCHANGED <<pc, inLoop, client, twitch, sockets, loopv, events, results, lastCall,
                 lastErr>>

\* A plugin's init function appends its Hook to the registry.
PluginInit(h) ==
  /\ pc = "startup"
  /\ Len(Hooks) < MaxHooks
  /\ \A i \in 1..Len(Hooks) : Hooks[i] # h
  /\ Hooks' = Append(Hooks, h)
  /\ UNCHANGED <<pc, inLoop, client, twitch, sockets, loopv, events, results, lastCall,
                 lastErr>>

\* New: the Client is made with the identity given, the default timeout,
\* no connection and the flag false.
New(id) ==
  /\ pc = "startup"
  /\ pc' = "idle"
  /\ conn' = 0 /\ rw' = 0 /\ registered' = FALSE
  /\ identity' = id /\ timeoutTime' = timeoutTimeDefault
  /\ lastCall' = Call("New") /\ lastErr' = ErrNil
  /\ UNCHANGED <<inLoop, Hooks, twitch, sockets, loopv, events, results>>

\* Connect dialing a second time when the dial has failed, and dropping the
\* connection it had when that fails too.
ConnectRetries(dialOk) ==
  /\ pc = "idle"
  /\ lastCall' = Call("Connect")
  /\ results' = <<>>
  /\ IF dialOk
     THEN /\ dialed < MaxSockets
          /\ events' = <<DialEv(TRUE)>>
          /\ dialed' = dialed + 1
          /\ open' = open \cup {dialed + 1}
          /\ conn' = dialed + 1 /\ rw' = dialed + 1
          /\ lastErr' = ErrNil
     ELSE /\ events' = <<DialEv(FALSE), DialEv(FALSE)>>
          /\ lastErr' = ErrDial
          /\ conn' = 0 /\ rw' = 0
          /\ UNCHANGED sockets
  /\ UNCHANGED <<pc, inLoop, registered, config, Hooks, twitch, loopv>>

\* Connect closing the connection the Client has before it takes the new one.
ConnectClosesPrevious(dialOk) ==
  /\ pc = "idle"
  /\ lastCall' = Call("Connect")
  /\ events' = <<DialEv(dialOk)>> /\ results' = <<>>
  /\ IF dialOk
     THEN /\ dialed < MaxSockets
          /\ dialed' = dialed + 1
          /\ open' = (open \ {conn}) \cup {dialed + 1}
          /\ conn' = dialed + 1 /\ rw' = dialed + 1
          /\ lastErr' = ErrNil
     ELSE /\ lastErr' = ErrDial
          /\ UNCHANGED <<conn, rw, sockets>>
  /\ UNCHANGED <<pc, inLoop, registered, config, Hooks, twitch, loopv>>

\* Client.Connect: one dial; on success conn and rw refer to the new socket,
\* whatever they referred to before; on failure the error is returned.
Connect(dialOk) ==
  /\ pc = "idle"
  /\ lastCall' = Call("Connect")
  /\ events' = <<DialEv(dialOk)>> /\ results' = <<>>
  /\ IF dialOk
     THEN /\ dialed < MaxSockets
          /\ dialed' = dialed + 1
          /\ open' = open \cup {dialed + 1}
          /\ conn' = dialed + 1 /\ rw' = dialed + 1
          /\ lastErr' = ErrNil
     ELSE /\ lastErr' = ErrDial
          /\ UNCHANGED <<conn, rw, sockets>>
  /\ UNCHANGED <<pc, inLoop, registered, config, Hooks, twitch, loopv>>

\* The Client's fields and the record of the call after ApiCall.
Apply(a, r) ==
  /\ conn' = r.conn /\ rw' = r.rw /\ registered' = r.registered
  /\ open' = r.open
  /\ results' = r.res
  /\ lastCall' = a /\ lastErr' = r.err
  /\ UNCHANGED config

\* The program calls a method of the Client outside Loop.
ProgramCall(a, failAt, closeOk) ==
  /\ pc = "idle"
  /\ LET r == ApiCall(a, failAt, closeOk)
     IN  /\ Apply(a, r)
         /\ events' = r.ev
         /\ pc' = IF r.err = ErrPanic THEN "panicked" ELSE "idle"
  /\ UNCHANGED <<inLoop, Hooks, twitch, dialed, loopv>>


(***************************************************************************)
(* Loop.                                                                   *)
(***************************************************************************)
\* The program calls Loop.
LoopStart ==
  /\ pc = "idle"
  /\ pc' = "loop" /\ inLoop' = TRUE
  /\ msg' = NoMsg /\ hookIdx' = 0 /\ lastRead' = ""
  /\ buf' = "" /\ readOps' = <<>>
  /\ events' = <<>> /\ results' = <<>>
  /\ lastCall' = Call("Loop") /\ lastErr' = ErrNil
  /\ UNCHANGED <<client, Hooks, twitch, sockets>>

\* Loop's ReadMessage returning an error when there is no connection.
LoopReadNilReturnsError ==
  /\ pc = "loop"
  /\ conn = 0
  /\ pc' = "idle" /\ inLoop' = FALSE
  /\ lastRead' = "ioerr" /\ lastErr' = ErrIO
  /\ lastCall' = Call("Loop")
  /\ events' = <<>> /\ results' = <<>>
  /\ buf' = "" /\ readOps' = <<>>
  /\ UNCHANGED <<client, Hooks, twitch, sockets, msg, hookIdx>>

\* Loop's ReadMessage with no connection: read dereferences the nil conn.
LoopReadNil ==
  /\ pc = "loop"
  /\ conn = 0
  /\ pc' = "panicked"
  /\ lastRead' = "panic" /\ lastErr' = ErrPanic
  /\ events' = <<>> /\ results' = <<>>
  /\ buf' = "" /\ readOps' = <<>>
  /\ UNCHANGED <<inLoop, client, Hooks, twitch, sockets, msg, hookIdx, lastCall>>

\* The error ReadMessage makes of a parse error on a line.
ParseError(line) == "unable to parse message: " \o line \o ": " \o ErrParse

\* Lines ParseMessage rejects.
BadLines == {"\r\n", ":irc.example.org\r\n"}

\* What ReadMessage returns for an outcome of the read and of the parse of
\* the line read.
ReadErr(outcome, line) ==
  CASE outcome = "deadline" -> ErrIO
    [] outcome = "ioerr"    -> ErrIO
    [] outcome = "parse"    -> ParseError(line)
    [] OTHER                -> ErrNil

\* The lines read for an outcome: a rejected one when the parse fails.
LinesOf(outcome) == IF outcome = "parse" THEN BadLines ELSE {""}

\* Loop going on to another read after a failed one.
LoopReadFailRetries(outcome, line) ==
  /\ pc = "loop"
  /\ conn # 0
  /\ outcome \in {"deadline", "ioerr", "parse"}
  /\ lastRead' = outcome
  /\ lastErr' = ErrIO
  /\ events' = <<>> /\ results' = <<>>
  /\ buf' = line
  /\ readOps' = read(IF outcome = "parse" THEN "ok" ELSE outcome)
  /\ UNCHANGED <<pc, inLoop, client, Hooks, twitch, sockets, msg, hookIdx, lastCall>>

\* Loop's ReadMessage fails (SetDeadline, the read itself, or a parse error
\* other than ErrTruncated): Loop returns the error.
LoopReadFail(outcome, line) ==
  /\ pc = "loop"
  /\ conn # 0
  /\ ReadErr(outcome, line) # ErrNil
  /\ pc' = "idle" /\ inLoop' = FALSE
  /\ lastRead' = outcome
  /\ lastCall' = Call("Loop") /\ lastErr' = ReadErr(outcome, line)
  /\ events' = <<>> /\ results' = <<>>
  /\ buf' = line
  /\ readOps' = read(IF outcome = "parse" THEN "ok" ELSE outcome)
  /\ UNCHANGED <<client, Hooks, twitch, sockets, msg, hookIdx>>

\* Loop going on to the hooks when the PONG was not sent.
LoopBodyIgnoresPongError(m, failAt, closeOk) ==
  LET pong == IF m.cmd = "PING"
              THEN Pong(m, IoOf(failAt))
              ELSE [err |-> ErrNil, ev |-> <<>>]
      res  == IF m.cmd = "PING" /\ pong.err # ErrPanic
              THEN <<pong.err>> ELSE <<>>
  IN  IF pong.err = ErrPanic
      THEN [Out(ErrPanic, <<>>, res) EXCEPT !.next = "panicked"]
      ELSE IF m.cmd = "ERROR"
      THEN [Close(closeOk) EXCEPT !.next = "idle"]
      ELSE [Out(ErrNil, pong.ev, res) EXCEPT !.next = "dispatch"]

\* Loop inferring registration from the welcome reply.
LoopBodyInfersWelcome(m, failAt, closeOk) ==
  LET pong == IF m.cmd = "PING"
              THEN Pong(m, IoOf(failAt))
              ELSE [err |-> ErrNil, ev |-> <<>>]
      res  == IF m.cmd = "PING" /\ pong.err # ErrPanic
              THEN <<pong.err>> ELSE <<>>
  IN  IF pong.err = ErrPanic
      THEN [Out(ErrPanic, <<>>, res) EXCEPT !.next = "panicked"]
      ELSE IF pong.err # ErrNil
      THEN [Out(pong.err, pong.ev, res) EXCEPT !.next = "idle"]
      ELSE IF m.cmd = "ERROR"
      THEN [Close(closeOk) EXCEPT !.next = "idle"]
      ELSE [Out(ErrNil, pong.ev, res) EXCEPT
              !.next = "dispatch",
              !.registered = registered \/ m.cmd = "001"]

\* The body of Loop's for after a frame m was read: the PONG for a PING,
\* the Close for an ERROR, and otherwise (a PING included) on to the hooks.
LoopBody(m, failAt, closeOk) ==
  LET pong == IF m.cmd = "PING"
              THEN Pong(m, IoOf(failAt))
              ELSE [err |-> ErrNil, ev |-> <<>>]
      res  == IF m.cmd = "PING" /\ pong.err # ErrPanic
              THEN <<pong.err>> ELSE <<>>
  IN  IF pong.err = ErrPanic
      THEN [Out(ErrPanic, <<>>, res) EXCEPT !.next = "panicked"]
      ELSE IF pong.err # ErrNil
      THEN [Out(pong.err, pong.ev, res) EXCEPT !.next = "idle"]
      ELSE IF m.cmd = "ERROR"
      THEN [Close(closeOk) EXCEPT !.next = "idle"]
      ELSE [Out(ErrNil, pong.ev, res) EXCEPT !.next = "dispatch"]

\* Loop returning ErrTruncated instead of handling a truncated frame.
LoopFrameStrict(m, truncated, failAt, closeOk) ==
  /\ pc = "loop"
  /\ conn # 0
  /\ LET r == IF truncated
              THEN [Out(ErrTruncated, <<>>, <<>>) EXCEPT !.next = "idle"]
              ELSE LoopBody(m, failAt, closeOk)
     IN  /\ pc' = r.next /\ inLoop' = (r.next # "idle")
         /\ conn' = r.conn /\ rw' = r.rw /\ registered' = r.registered
         /\ open' = r.open
         /\ events' = r.ev /\ results' = r.res
         /\ lastCall' = IF r.next = "idle" THEN Call("Loop") ELSE lastCall
         /\ lastErr' = IF r.next = "dispatch" THEN lastErr ELSE r.err
  /\ msg' = m /\ hookIdx' = 0
  /\ lastRead' = IF truncated THEN "truncated" ELSE "ok"
  /\ buf' = "" /\ readOps' = read("ok")
  /\ UNCHANGED <<config, Hooks, twitch, dialed>>

\* Loop reads a frame (whole or truncated) and handles it up to the hooks.
LoopFrame(m, truncated, failAt, closeOk) ==
  /\ pc = "loop"
  /\ conn # 0
  /\ LET r == LoopBody(m, failAt, closeOk)
     IN  /\ pc' = r.next /\ inLoop' = (r.next # "idle")
         /\ conn' = r.conn /\ rw' = r.rw /\ registered' = r.registered
         /\ open' = r.open
         /\ events' = r.ev /\ results' = r.res
         /\ lastCall' = IF r.next = "idle" THEN Call("Loop") ELSE lastCall
         /\ lastErr' = IF r.next = "dispatch" THEN lastErr ELSE r.err
  /\ msg' = m /\ hookIdx' = 0
  /\ lastRead' = IF truncated THEN "truncated" ELSE "ok"
  /\ buf' = "" /\ readOps' = read("ok")
  /\ UNCHANGED <<config, Hooks, twitch, dialed>>

\* A hook's call whose send fails ending Loop.
HookCallEndsLoop(a, failAt, closeOk) ==
  /\ pc = "dispatch"
  /\ hookIdx < Len(Hooks)
  /\ hookIdx' = hookIdx + 1
  /\ LET r == ApiCall(a, failAt, closeOk)
         failed == \E i \in 1..Len(r.res) : r.res[i] # ErrNil
     IN  /\ events' = events \o <<HookEv(Hooks[hookIdx + 1], msg)>> \o r.ev
         /\ pc' = IF r.err = ErrPanic THEN "panicked"
                  ELSE IF failed THEN "idle" ELSE "dispatch"
         /\ inLoop' = ~failed
         /\ IF a.op = "none"
            THEN UNCHANGED <<client, open, results, lastCall, lastErr>>
            ELSE Apply(a, r)
  /\ UNCHANGED <<Hooks, twitch, dialed, msg, lastRead, buf, readOps>>

\* The range over Hooks taken from its end.
HookAtFromEnd(i) == Hooks[Len(Hooks) - i]

\* Client.hooks: the hook the range over Hooks yields after i hooks.
HookAt(i) == Hooks[i + 1]

\* Client.hooks calls the next hook with the frame; the hook makes one call
\* on the Client, or none.
HookCall(a, failAt, closeOk) ==
  /\ pc = "dispatch"
  /\ hookIdx < Len(Hooks)
  /\ hookIdx' = hookIdx + 1
  /\ LET r == ApiCall(a, failAt, closeOk)
     IN  /\ events' = events \o <<HookEv(HookAt(hookIdx), msg)>> \o r.ev
         /\ pc' = IF r.err = ErrPanic THEN "panicked" ELSE "dispatch"
         /\ IF a.op = "none"
            THEN UNCHANGED <<client, open, results, lastCall, lastErr>>
            ELSE Apply(a, r)
  /\ UNCHANGED <<inLoop, Hooks, twitch, dialed, msg, lastRead, buf, readOps>>

\* Client.hooks returning after the first hook.
DispatchDoneAfterFirst ==
  /\ pc = "dispatch"
  /\ hookIdx >= Min(1, Len(Hooks))
  /\ pc' = "loop"
  /\ UNCHANGED <<inLoop, client, Hooks, twitch, sockets, loopv, events, results,
                 lastCall, lastErr>>

\* Client.hooks returns and Loop goes on to its next read.
DispatchDone ==
  /\ pc = "dispatch"
  /\ hookIdx = Len(Hooks)
  /\ pc' = "loop"
  /\ UNCHANGED <<inLoop, client, Hooks, twitch, sockets, loopv, events, results,
                 lastCall, lastErr>>

\* The calls a hook makes.
HookCalls ==
  {Call("none"),
   [op |-> "Message", target |-> Chan, message |-> Hello],
   [op |-> "SetRegistered", target |-> <<>>, message |-> <<>>],
   [op |-> "Close", target |-> <<>>, message |-> <<>>]}

Next ==
  \/ \E h \in HookIds : PluginInit(h)
  \/ New(DefaultId)
  \/ \E dialOk \in BOOLEAN : Connect(dialOk)
  \/ \E a \in Calls : \E failAt \in FailAts(a), closeOk \in CloseOks(a) :
       ProgramCall(a, failAt, closeOk)
  \/ LoopStart
  \/ LoopReadNil
  \/ \E outcome \in {"deadline", "ioerr", "parse"} :
       \E line \in LinesOf(outcome) : LoopReadFail(outcome, line)
  \/ \E m \in InFrames, truncated \in BOOLEAN :
       \E failAt \in (IF m.cmd = "PING" THEN 0..1 ELSE {0}),
          closeOk \in (IF m.cmd = "ERROR" THEN BOOLEAN ELSE {TRUE}) :
         LoopFrame(m, truncated, failAt, closeOk)
  \/ \E a \in HookCalls : \E failAt \in FailAts(a), closeOk \in CloseOks(a) :
       HookCall(a, failAt, closeOk)
  \/ DispatchDone

Spec == Init /\ [][Next]_vars


(***************************************************************************)
(* SpecMessage: Message alone, on a connected Client, over bodies of every *)
(* length up to MaxBodyLen, with and without spaces, and over targets      *)
(* short, long enough for the line to pass MaxLineLength, empty, holding a *)
(* space, and too long to encode.                                          *)
(***************************************************************************)
Bodies == {Plain(n) : n \in 0..MaxBodyLen} \cup {Spaced(n) : n \in 0..MaxBodyLen}
TargetLens == {0, 1, 2, 100, 101, 102, MaxTargetLen}
Targets == {Plain(n) : n \in TargetLens} \cup {<<35, SP, 99>>}

\* A Client made by New and connected by Connect.
InitMessage ==
  /\ pc = "idle" /\ inLoop = FALSE
  /\ conn = 1 /\ rw = 1 /\ registered = FALSE
  /\ identity = DefaultId /\ timeoutTime = timeoutTimeDefault
  /\ Hooks = <<>>
  /\ twitchstreamsInit
  /\ open = {1} /\ dialed = 1
  /\ msg = NoMsg /\ hookIdx = 0 /\ lastRead = ""
  /\ buf = "" /\ readOps = <<>>
  /\ events = <<DialEv(TRUE)>> /\ results = <<>>
  /\ lastCall = Call("Connect") /\ lastErr = ErrNil

\* The program calls Message; its write number failAt fails (0: none).
MessageCall(target, message, failAt) ==
  ProgramCall([op |-> "Message", target |-> target, message |-> message],
              failAt, TRUE)

\* One call of Message per behaviour, right after Connect.
NextMessage ==
  /\ lastCall.op = "Connect"
  /\ \E target \in Targets, message \in Bodies, failAt \in 0..3 :
       MessageCall(target, message, failAt)

SpecMessage == InitMessage /\ [][NextMessage]_vars


(***************************************************************************)
(* SpecSenders: one call of Register or of a generic sender, on a          *)
(* connected Client, over identities and arguments that encode whole, that *)
(* are cut to the line limit, and that do not encode.                      *)
(***************************************************************************)
\* Identities: the default one, an ident holding a space (USER does not
\* encode), a nick longer than a line (NICK is cut), an empty nick.
Identities ==
  {DefaultId,
   [DefaultId EXCEPT !.ident = Hello],
   [DefaultId EXCEPT !.nick = Plain(MaxLineLength)],
   [DefaultId EXCEPT !.nick = <<>>]}

\* Arguments of the generic senders.
SenderArgs == {<<>>, Chan, Hello, Plain(MaxLineLength), Spaced(MaxLineLength)}

SenderCalls ==
  {Call("Register")}
    \cup {[op |-> "Join", target |-> t, message |-> <<>>] : t \in SenderArgs}
    \cup {[op |-> "Quit", target |-> <<>>, message |-> b] : b \in SenderArgs}
    \cup {[op |-> o, target |-> t, message |-> b] :
            o \in {"Oper", "UserMode"}, t \in SenderArgs, b \in SenderArgs}

\* A Client made by New with some identity and connected by Connect.
InitSenders ==
  /\ pc = "idle" /\ inLoop = FALSE
  /\ conn = 1 /\ rw = 1 /\ registered = FALSE
  /\ identity \in Identities /\ timeoutTime = timeoutTimeDefault
  /\ Hooks = <<>>
  /\ twitchstreamsInit
  /\ open = {1} /\ dialed = 1
  /\ msg = NoMsg /\ hookIdx = 0 /\ lastRead = ""
  /\ buf = "" /\ readOps = <<>>
  /\ events = <<DialEv(TRUE)>> /\ results = <<>>
  /\ lastCall = Call("Connect") /\ lastErr = ErrNil

\* One call per behaviour, right after Connect.
NextSenders ==
  /\ lastCall.op = "Connect"
  /\ \E a \in SenderCalls : \E failAt \in FailAts(a) :
       ProgramCall(a, failAt, TRUE)

SpecSenders == InitSenders /\ [][NextSenders]_vars


(***************************************************************************)
(* SpecTimeout: a program with one plugin that makes a Client, sets its    *)
(* timeout, connects, sends and runs Loop, every write failing at its      *)
(* SetDeadline as well as at the write itself.                             *)
(***************************************************************************)
\* The durations given to SetTimeoutTime, in minutes.
Durations == {1, 10}

\* Client.SetTimeoutTime.
SetTimeoutTime(d) ==
  /\ pc = "idle"
  /\ timeoutTime' = d
  /\ lastCall' = Call("SetTimeoutTime") /\ lastErr' = ErrNil
  /\ events' = <<>> /\ results' = <<>>
  /\ UNCHANGED <<pc, inLoop, conn, rw, registered, identity, Hooks, twitch, sockets,
                 loopv>>

\* The write that fails in a call, at the write or at its SetDeadline.
FailAtsDeadline(a) == FailAts(a) \cup {-f : f \in FailAts(a)}

\* The plugins' init functions have run: one hook is registered.
InitTimeout ==
  /\ pc = "startup" /\ inLoop = FALSE
  /\ conn = 0 /\ rw = 0 /\ registered = FALSE
  /\ identity = NoId /\ timeoutTime = 0
  /\ Hooks = <<"twitchstreams">>
  /\ twitchstreamsInit
  /\ open = {} /\ dialed = 0
  /\ msg = NoMsg /\ hookIdx = 0 /\ lastRead = ""
  /\ buf = "" /\ readOps = <<>>
  /\ events = <<>> /\ results = <<>>
  /\ lastCall = NoCall /\ lastErr = ErrNil

NextTimeout ==
  \/ New(DefaultId)
  \/ \E d \in Durations : SetTimeoutTime(d)
  \/ \E dialOk \in BOOLEAN : Connect(dialOk)
  \/ \E a \in Calls :
       \E failAt \in FailAtsDeadline(a), closeOk \in CloseOks(a) :
         ProgramCall(a, failAt, closeOk)
  \/ LoopStart
  \/ LoopReadNil
  \/ \E outcome \in {"deadline", "ioerr", "parse"} :
       \E line \in LinesOf(outcome) : LoopReadFail(outcome, line)
  \/ \E m \in InFrames, truncated \in BOOLEAN :
       \E failAt \in (IF m.cmd = "PING" THEN -1..1 ELSE {0}),
          closeOk \in (IF m.cmd = "ERROR" THEN BOOLEAN ELSE {TRUE}) :
         LoopFrame(m, truncated, failAt, closeOk)
  \/ \E a \in HookCalls :
       \E failAt \in FailAtsDeadline(a), closeOk \in CloseOks(a) :
         HookCall(a, failAt, closeOk)
  \/ DispatchDone

SpecTimeout == InitTimeout /\ [][NextTimeout]_vars


(***************************************************************************)
(* SpecNil: a program with two plugins whose Client may have no            *)
(* connection when Loop or a sender is called: it was never connected, or  *)
(* the program or a hook has closed it.                                    *)
(***************************************************************************)
\* The calls of the program: those of Spec, an Oper whose name does not
\* encode and a Message with an empty body.
NilCalls ==
  Calls \cup {[op |-> "Oper", target |-> Hello, message |-> Xyz123],
              [op |-> "Message", target |-> Chan, message |-> <<>>]}

\* The plugins' init functions have run: two hooks are registered.
InitNil ==
  /\ pc = "startup" /\ inLoop = FALSE
  /\ conn = 0 /\ rw = 0 /\ registered = FALSE
  /\ identity = NoId /\ timeoutTime = 0
  /\ Hooks = <<"oper", "twitchstreams">>
  /\ twitchstreamsInit
  /\ open = {} /\ dialed = 0
  /\ msg = NoMsg /\ hookIdx = 0 /\ lastRead = ""
  /\ buf = "" /\ readOps = <<>>
  /\ events = <<>> /\ results = <<>>
  /\ lastCall = NoCall /\ lastErr = ErrNil

NextNil ==
  \/ New(DefaultId)
  \/ \E dialOk \in BOOLEAN : Connect(dialOk)
  \/ \E a \in NilCalls : \E failAt \in FailAts(a), closeOk \in CloseOks(a) :
       ProgramCall(a, failAt, closeOk)
  \/ LoopStart
  \/ LoopReadNil
  \/ \E outcome \in {"deadline", "ioerr", "parse"} :
       \E line \in LinesOf(outcome) : LoopReadFail(outcome, line)
  \/ \E m \in InFrames, truncated \in BOOLEAN :
       \E failAt \in (IF m.cmd = "PING" THEN 0..1 ELSE {0}),
          closeOk \in (IF m.cmd = "ERROR" THEN BOOLEAN ELSE {TRUE}) :
         LoopFrame(m, truncated, failAt, closeOk)
  \/ \E a \in HookCalls : \E failAt \in FailAts(a), closeOk \in CloseOks(a) :
       HookCall(a, failAt, closeOk)
  \/ DispatchDone

SpecNil == InitNil /\ [][NextNil]_vars


(***************************************************************************)
(* SpecTwitch: the twitchstreams plugin alone, on a connected Client whose *)
(* Loop reads replies and channel messages, some of them !twitch requests. *)
(***************************************************************************)
\* The time of the last hook call of a behaviour, in minutes.
MaxTime == 30

Bob == <<98, 111, 98>>
Amy == <<97, 109, 121>>

\* What the requests of a poll bring for each user: an error, no stream,
\* or streams (two for bob, one for amy).
PollAnswers ==
  {[u \in {Bob, Amy} |-> IF u = Bob THEN b ELSE a] :
     b \in {Failed, Streams(<<>>), Streams(<<Live, Chess>>)},
     a \in {Failed, Streams(<<>>), Streams(<<Live>>)}}
\* What the requests of a !twitch request bring, the same for each user.
AskedAnswers ==
  {[u \in {Bob, Amy} |-> a] : a \in {Failed, Streams(<<>>), Streams(<<Live>>)}}
\* The answers of a hook call that makes no request.
NoAnswers == [u \in {Bob, Amy} |-> Failed]

\* The frames read: the welcome reply, a channel message, two requests
\* ("!Twitch  Amy", ".twitch") and a PRIVMSG without a text.
TwitchFrames ==
  {[cmd |-> "001", params |-> <<Xyz123, Hello>>],
   [cmd |-> "PRIVMSG", params |-> <<Chan, Hello>>],
   [cmd |-> "PRIVMSG",
    params |-> <<Chan, <<33, 84, 119, 105, 116, 99, 104, SP, SP, 65, 109,
                         121>>>>],
   [cmd |-> "PRIVMSG", params |-> <<Chan, <<46, 116, 119, 105, 116, 99, 104>>>>],
   [cmd |-> "PRIVMSG", params |-> <<Chan>>]}

\* time.Now(): a multiple of five minutes, not before the last poll.
Times == {t \in durationBetweenPolls..MaxTime : t % 5 = 0 /\ t >= lastPollTime}

\* Loop's frame is a !twitch request.
Requested ==
  /\ msg.cmd = "PRIVMSG"
  /\ Len(msg.params) >= 2
  /\ triggerRE(msg.params[2]).matched

\* Hook of twitchstreams, called by Client.hooks with Loop's frame: the poll
\* first, then for a PRIVMSG the !twitch request.  answers is what the
\* poll's requests bring, asked what the request's do; the hook's call of
\* Message number failAt fails in its write.
Hook(now, answers, asked, failAt) ==
  /\ pc = "dispatch"
  /\ hookIdx < Len(Hooks)
  /\ HookAt(hookIdx) = "twitchstreams"
  /\ hookIdx' = hookIdx + 1
  /\ \E p \in {pollStreams(now, answers, failAt)} :
     LET short == msg.cmd = "PRIVMSG" /\ Len(msg.params) < 2
         re    == IF msg.cmd = "PRIVMSG" /\ ~short
                  THEN triggerRE(msg.params[2])
                  ELSE [matched |-> FALSE, args |-> <<>>]
         sends == IF re.matched
                  THEN triggerTwitch(msg.params[1],
                                     ToLower(TrimSpace(re.args)), asked)
                  ELSE <<>>
     IN  \E r \in {SendAll(sends, p.sent, failAt,
                          [err |-> p.err, ev |-> <<>>, res |-> p.res,
                           last |-> p.last])} :
         LET panic == r.err = ErrPanic \/ short
         IN
         /\ usernameStreaming' = p.recorded
         /\ lastPollTime' = p.lastPollTime
         /\ polled' = p.polled
         /\ events' = events \o <<HookEv(HookAt(hookIdx), msg)>> \o p.ev
                        \o r.ev
         /\ results' = r.res /\ lastCall' = r.last
         /\ pc' = IF panic THEN "panicked" ELSE "dispatch"
         /\ lastErr' = IF panic THEN ErrPanic
                       ELSE IF p.ev \o r.ev # <<>> THEN ErrNil ELSE lastErr
  /\ UNCHANGED <<inLoop, client, Hooks, sockets, msg, lastRead, buf, readOps>>

\* The program has connected; twitchstreams is the one plugin.
InitTwitch ==
  /\ pc = "idle" /\ inLoop = FALSE
  /\ conn = 1 /\ rw = 1 /\ registered = FALSE
  /\ identity = DefaultId /\ timeoutTime = timeoutTimeDefault
  /\ Hooks = <<"twitchstreams">>
  /\ twitchstreamsInit
  /\ open = {1} /\ dialed = 1
  /\ msg = NoMsg /\ hookIdx = 0 /\ lastRead = ""
  /\ buf = "" /\ readOps = <<>>
  /\ events = <<DialEv(TRUE)>> /\ results = <<>>
  /\ lastCall = Call("Connect") /\ lastErr = ErrNil

NextTwitch ==
  \/ LoopStart
  \/ \E m \in TwitchFrames : LoopFrame(m, FALSE, 0, TRUE)
  \/ \E now \in Times :
       \E answers \in (IF now - lastPollTime < durationBetweenPolls
                       THEN {NoAnswers} ELSE PollAnswers),
          asked \in (IF Requested THEN AskedAnswers ELSE {NoAnswers}),
          failAt \in 0..1 :
         Hook(now, answers, asked, failAt)
  \/ DispatchDone

SpecTwitch == InitTwitch /\ [][NextTwitch]_vars


(***************************************************************************)
(* Properties.                                                             *)
(***************************************************************************)
Writes(evs) == SelectSeq(evs, LAMBDA e : e.kind = "write")
HookEvs(evs) == SelectSeq(evs, LAMBDA e : e.kind = "hook")
CloseEvs(evs) == SelectSeq(evs, LAMBDA e : e.kind = "close")

\* Loop has read a frame in its current (or last) iteration.
FrameRead == lastRead \in {"ok", "truncated"}
\* Loop has returned and nothing was called since.
LoopReturned == pc = "idle" /\ lastCall.op = "Loop"
\* Loop is past the handling of the frame it read.
PastFrame == inLoop /\ pc \in {"dispatch", "loop", "panicked"}

\* The bytes of "PONG xyz123\r\n".
PongXyz123Line == <<80, 79, 78, 71, 32, 120, 121, 122, 49, 50, 51, 13, 10>>

DispatchedTo(n) == [i \in 1..n |-> HookEv(Hooks[i], msg)]

\* C2: for a frame that is neither PING nor ERROR, the hooks called so far
\* are the first hookIdx hooks of Hooks, each called once, in the order of
\* the registry and with the frame read; when Loop goes on to its next read
\* every hook of Hooks has been called.
C2_HooksInOrder ==
  (FrameRead /\ msg.cmd \notin {"PING", "ERROR"}) =>
    /\ inLoop
    /\ HookEvs(events) = DispatchedTo(hookIdx)
    /\ pc = "loop" => hookIdx = Len(Hooks)

C2_Witness ==
  /\ pc = "loop" /\ FrameRead /\ msg.cmd = "PRIVMSG"
  /\ Len(Hooks) >= 2 /\ Hooks[1] # Hooks[2]
  /\ HookEvs(events) = DispatchedTo(Len(Hooks))

\* C3: every message ReadMessage returns, whatever its command, has been
\* given to each hook of Hooks when Loop reads again or returns.
C3_EveryMessageToHooks ==
  (FrameRead /\ (pc = "loop" \/ LoopReturned)) =>
    HookEvs(events) = DispatchedTo(Len(Hooks))

\* C4: an ERROR frame is never dispatched and never followed by a read, and
\* when Loop has returned from it the connection was closed exactly once,
\* conn is nil and the flag is false; Loop returned what Close returned.
C4_ErrorCloses ==
  (FrameRead /\ msg.cmd = "ERROR") =>
    /\ ~inLoop
    /\ LoopReturned =>
         /\ conn = 0 /\ rw = 0 /\ ~registered
         /\ events = <<CloseEv>>
         /\ lastErr \in {ErrNil, ErrClose}

C4_Witness ==
  /\ LoopReturned /\ FrameRead /\ msg.cmd = "ERROR"
  /\ Hooks # <<>> /\ conn = 0 /\ lastErr = ErrClose
  /\ Len(CloseEvs(events)) = 1

\* C5: once an operation has returned an I/O error (a failed read in Loop,
\* a failed write in a sender or in the PONG), conn is nil.
C5_HandleClearedOnIOError ==
  (lastErr = ErrIO \/ \E i \in 1..Len(results) : results[i] = ErrIO) => conn = 0

ReadFailures == {"deadline", "ioerr"}

\* C6: when Loop's read fails (deadline expiry included), Loop returns an
\* error; that step calls no hook, writes nothing, dials nothing and leaves
\* conn, rw and the flag as they were; a Close called after it leaves conn
\* nil.
C6_ReadFailureReturns ==
  [][/\ (pc = "loop" /\ lastRead' \in ReadFailures) =>
          /\ pc' = "idle" /\ lastCall'.op = "Loop"
          /\ lastErr' # ErrNil
          /\ events' = <<>>
          /\ UNCHANGED <<conn, rw, registered, open, dialed>>
     /\ (LoopReturned /\ lastRead \in ReadFailures /\ lastCall'.op = "Close") =>
          conn' = 0 /\ conn # 0]_vars

C6_Witness ==
  /\ pc = "idle" /\ lastCall.op = "Close" /\ lastRead = "deadline"
  /\ conn = 0 /\ Hooks # <<>> /\ events = <<CloseEv>>


(***************************************************************************)
(* Properties of Message, under SpecMessage.                               *)
(***************************************************************************)
\* Every WriteMessage of the last call returned nil.
AllSent == \A i \in 1..Len(results) : results[i] = ErrNil

CeilDiv(a, b) == (a + b - 1) \div b

\* The body piece a PRIVMSG line carries for its target, as a reader of the
\* wire finds it: what follows "PRIVMSG <target> " up to the CRLF, less the
\* colon that marks a trailing parameter.
WirePiece(line, target) ==
  LET rest == SubSeq(line, Len("PRIVMSG ") + Len(target) + 2, Len(line) - 2)
  IN  IF rest # <<>> /\ rest[1] = COLON THEN Tail(rest) ELSE rest

WirePieces(evs, target) ==
  [i \in 1..Len(Writes(evs)) |-> WirePiece(Writes(evs)[i].line, target)]

\* C7: when every send of Message succeeds, a body of L bytes is sent in
\* exactly ceil(L / 400) PRIVMSG frames, none for L = 0.
C7_ChunkCount ==
  (lastCall.op = "Message" /\ AllSent /\ lastErr = ErrNil) =>
    /\ Len(events) = CeilDiv(Len(lastCall.message), 400)
    /\ \A i \in 1..Len(events) :
         events[i].kind = "write" /\ events[i].m.cmd = "PRIVMSG"
    /\ Len(lastCall.message) = 0 => events = <<>>

C7_Witness ==
  /\ lastCall.op = "Message" /\ AllSent
  /\ Len(lastCall.message) = 801 /\ Len(events) = 3
  /\ Len(results) = 3

\* C8: when every send of Message succeeds, the body pieces of the PRIVMSG
\* lines written, joined in the order written, are the body, for every body
\* and every target.
C8_Reconstructs ==
  (lastCall.op = "Message" /\ AllSent /\ lastErr = ErrNil) =>
    Flatten(WirePieces(events, lastCall.target)) = lastCall.message

\* C9: every line Message sends, counted as "PRIVMSG " + target + " :" +
\* chunk + CRLF, is at most 412 bytes long.
C9_WithinBudget ==
  lastCall.op = "Message" =>
    \A i \in 1..Len(events) :
      events[i].kind = "write" =>
        Len("PRIVMSG ") + Len(lastCall.target) + Len(" :")
          + Len(events[i].m.params[2]) + Len("\r\n") <= 412

C15_ChunkFailure ==
  (/\ lastCall.op = "Message" /\ lastErr # ErrPanic
   /\ \E i \in 1..Len(results) : results[i] # ErrNil) =>
    LET k == Len(results)
    IN  /\ results[k] # ErrNil
        /\ Len(events) \in {k - 1, k}
        /\ Len(events) = k => events[k].kind = "writefail"
        /\ \A j \in 1..(k - 1) :
             /\ results[j] = ErrNil
             /\ events[j].kind = "write"
             /\ events[j].m =
                  [cmd |-> "PRIVMSG",
                   params |-> <<lastCall.target,
                                SubSeq(lastCall.message, 400 * (j - 1) + 1,
                                       400 * j)>>]
        /\ lastErr = ErrNil

\* The second of three chunks fails: one line written, the third chunk
\* never attempted.
C15_Witness ==
  /\ lastCall.op = "Message" /\ Len(lastCall.message) = 801
  /\ results = <<ErrNil, ErrIO>> /\ lastErr = ErrNil
  /\ Len(events) = 2
  /\ events[1].kind = "write" /\ events[2].kind = "writefail"

(***************************************************************************)
(* Properties of the lifecycle and of Loop, under Spec.                    *)
(***************************************************************************)
CloseCall == Call("Close")

\* A step in which the program or a hook calls Close.
CloseStep ==
  \E closeOk \in BOOLEAN :
    \/ ProgramCall(CloseCall, 0, closeOk)
    \/ HookCall(CloseCall, 0, closeOk)

\* C11: every call of Close leaves the Client without a connection (conn
\* and rw nil, the flag false), whatever conn.Close() returned; a call of
\* Close that comes right after another call of Close returns nil, closes
\* no socket and does not panic.
C11_CloseIdempotent ==
  [][CloseStep =>
       /\ conn' = 0 /\ rw' = 0 /\ ~registered'
       /\ lastCall.op = "Close" =>
            /\ conn = 0
            /\ lastErr' = ErrNil /\ pc' # "panicked"
            /\ Len(CloseEvs(events')) <= Len(CloseEvs(events))
            /\ open' = open]_vars

\* C13: Loop returns only from its read or its handling of the frame
\* read, never from the dispatch to the hooks, and in one of three cases:
\* ReadMessage failed (the read, or a parse error other than truncation),
\* the frame is a PING whose PONG was not sent, or the frame is an ERROR,
\* and then Loop returns what Close returned.  So Loop returns nil only
\* after an ERROR frame whose Close succeeded, and a step in which a hook's
\* send fails leaves Loop running.
C13_LoopReturns ==
  [][/\ (inLoop /\ ~inLoop') =>
          /\ pc = "loop" /\ pc' = "idle" /\ lastCall'.op = "Loop"
          /\ \/ /\ lastRead' \in {"deadline", "ioerr", "parse"}
                /\ lastErr' # ErrNil /\ events' = <<>>
             \/ /\ FrameRead' /\ msg'.cmd = "PING"
                /\ lastErr' # ErrNil /\ results' = <<lastErr'>>
                /\ Writes(events') = <<>>
             \/ /\ FrameRead' /\ msg'.cmd = "ERROR"
                /\ events' = <<CloseEv>>
                /\ lastErr' \in {ErrNil, ErrClose}
          /\ lastErr' = ErrNil => (msg'.cmd = "ERROR" /\ conn' = 0)
     /\ (pc = "dispatch" /\ hookIdx' = hookIdx + 1
           /\ \E i \in 1..Len(results') : results'[i] # ErrNil) =>
          inLoop' /\ pc' \in {"dispatch", "panicked"}]_vars

\* A hook's Message was not sent, and Loop has gone on to its next read.
C13_Witness ==
  /\ inLoop /\ pc = "loop" /\ FrameRead
  /\ lastCall.op = "Message" /\ results = <<ErrIO>>
  /\ hookIdx = Len(Hooks)
  /\ \E i \in 1..Len(events) : events[i].kind = "writefail"

\* A write that has returned: its transport operations were made, to the
\* Flush when it succeeded and to the failed operation otherwise.
Completed(e) ==
  /\ e.ops # <<>>
  /\ e.kind = "write" => e.ops[Len(e.ops)] = TOp("Flush", 0, TRUE)
  /\ e.kind = "writefail" => ~e.ops[Len(e.ops)].ok

\* C14: Loop reads only between frames: when it reads again every hook of
\* Hooks has been called with the frame read before, and the hooks called
\* in an iteration were all called with that iteration's frame.  A hook is
\* called after everything the hooks before it did for the frame: its
\* call is recorded after their events, which stay as they are, and what
\* it sends has been written (or has failed) within its call, before the
\* next hook is called.
C14_FramesInOrder ==
  [][/\ (pc' = "loop" /\ FrameRead') =>
          HookEvs(events') = DispatchedTo(Len(Hooks))'
     /\ \A i \in 1..Len(events') :
          events'[i].kind = "hook" => events'[i].m = msg'
     /\ (inLoop /\ (msg' # msg \/ lastRead' # lastRead)) => pc = "loop"
     /\ (pc = "dispatch" /\ hookIdx' = hookIdx + 1) =>
          /\ msg' = msg /\ lastRead' = lastRead
          /\ Len(events') > Len(events)
          /\ SubSeq(events', 1, Len(events)) = events
          /\ events'[Len(events) + 1] = HookEv(Hooks[hookIdx + 1], msg)
          /\ \A i \in (Len(events) + 2)..Len(events') :
               /\ events'[i].kind # "hook"
               /\ events'[i].kind \in {"write", "writefail"} =>
                    Completed(events'[i])]_vars

\* Two hooks have each sent a line for a channel message, one after the
\* other, and Loop is about to read again.
C14_Witness ==
  /\ pc = "loop" /\ FrameRead /\ msg.cmd = "PRIVMSG"
  /\ Len(Hooks) = 2 /\ Len(events) = 4
  /\ events[1].kind = "hook" /\ events[2].kind = "write"
  /\ events[3].kind = "hook" /\ events[4].kind = "write"

\* C16: a frame whose parse reports truncation is handled as a whole one
\* is: a PING is answered and dispatched (Loop returning when the PONG is
\* not sent), an ERROR closes the Client and ends Loop, any other frame
\* goes to the hooks, and Loop reads again once every hook was called.  A
\* line whose parse fails otherwise ends Loop with an error made of that
\* line; in that step no hook is called, nothing is written or closed and
\* the Client's fields stay as they are.
C16_DecodeErrors ==
  [][/\ (pc = "loop" /\ lastRead' = "truncated") =>
          /\ msg'.cmd = "ERROR" =>
               /\ pc' = "idle" /\ ~inLoop' /\ conn' = 0
               /\ events' = <<CloseEv>>
          /\ (msg'.cmd = "PING" /\ pc' # "panicked") =>
               /\ Len(events') = 1 /\ events'[1].m.cmd = "PONG"
               /\ pc' = IF results' = <<ErrNil>> THEN "dispatch" ELSE "idle"
          /\ msg'.cmd \notin {"PING", "ERROR"} =>
               /\ pc' = "dispatch" /\ inLoop' /\ events' = <<>>
               /\ UNCHANGED <<conn, rw, registered, open, lastErr>>
     /\ (pc' = "loop" /\ lastRead' = "truncated") =>
          /\ inLoop'
          /\ HookEvs(events') = DispatchedTo(Len(Hooks))'
     /\ (pc = "loop" /\ lastRead' = "parse") =>
          /\ pc' = "idle" /\ ~inLoop' /\ lastCall'.op = "Loop"
          /\ buf' \in BadLines
          /\ lastErr' = "unable to parse message: " \o buf' \o ": parse"
          /\ events' = <<>>
          /\ UNCHANGED <<conn, rw, registered, open, dialed, msg>>]_vars

\* A truncated channel message has gone to every hook and Loop is about to
\* read again.
C16_Witness ==
  /\ pc = "loop" /\ inLoop /\ lastRead = "truncated"
  /\ msg.cmd = "PRIVMSG" /\ Hooks # <<>>
  /\ Len(HookEvs(events)) = Len(Hooks)

\* C17: when the PONG for a PING read by Loop is not sent, that step ends
\* Loop: Loop returns the error of the send, no hook has been called with
\* the frame, and nothing was read after it.
C17_PongFailureReturns ==
  [][(/\ pc = "loop" /\ FrameRead' /\ msg'.cmd = "PING"
      /\ results' # <<>> /\ results'[1] # ErrNil) =>
       /\ pc' = "idle" /\ ~inLoop' /\ lastCall'.op = "Loop"
       /\ lastErr' = results'[1]
       /\ Len(events') = 1 /\ events'[1].kind = "writefail"
       /\ events'[1].m.cmd = "PONG"
       /\ HookEvs(events') = <<>> /\ hookIdx' = 0
       /\ Len(readOps') = 2]_vars

\* Loop has returned the error of a PONG, with hooks registered.
C17_Witness ==
  /\ LoopReturned /\ FrameRead /\ msg.cmd = "PING"
  /\ lastErr = ErrIO /\ results = <<ErrIO>>
  /\ Hooks # <<>> /\ HookEvs(events) = <<>>

\* C18: the flag is false when New has made the Client; a step that makes
\* it true is a call of SetRegistered, and a step that makes it false is a
\* call of Close, by the program, by a hook or by Loop for an ERROR frame.
\* Connect, Register, the senders and Loop's handling of any other frame,
\* the welcome reply included, leave it as it is.
C18_RegisteredFlag ==
  [][/\ lastCall'.op = "New" => ~registered'
     /\ (~registered /\ registered') => lastCall'.op = "SetRegistered"
     /\ (registered /\ ~registered') =>
          \/ CloseStep
          \/ pc = "loop" /\ msg'.cmd = "ERROR" /\ events' = <<CloseEv>>
     /\ (\/ lastCall'.op \in {"Connect", "Register", "Join", "Quit", "Oper",
                               "UserMode", "Message", "SetTimeoutTime"}
         \/ pc = "loop" /\ msg'.cmd # "ERROR") =>
          registered' = registered]_vars

\* Loop has handled the welcome reply, every hook has seen it, and the flag
\* is still false.
C18_Witness ==
  /\ pc = "loop" /\ FrameRead /\ msg.cmd = "001"
  /\ hookIdx = Len(Hooks) /\ Hooks # <<>>
  /\ ~registered /\ conn # 0

\* A Close on a Client that was connected and is closed already.
C11_Witness ==
  /\ pc = "idle" /\ lastCall.op = "Close" /\ dialed >= 1
  /\ conn = 0 /\ events = <<>> /\ lastErr = ErrNil


\* C22: Hooks changes in a plugin's init function only, before the Client
\* is made, and by one entry added at its end: the entries it had stay
\* where they are.  No step of New, Connect, Close, Loop, the dispatch to
\* the hooks, Register or a sender changes it.
C22_HooksAppendOnly ==
  [][/\ Hooks' # Hooks =>
          /\ pc = "startup" /\ pc' = "startup"
          /\ Len(Hooks') = Len(Hooks) + 1
          /\ SubSeq(Hooks', 1, Len(Hooks)) = Hooks
          /\ UNCHANGED <<conn, rw, registered, lastCall>>
     /\ (pc # "startup" \/ lastCall'.op # "") => Hooks' = Hooks]_vars

\* Two hooks are registered and are still there, in the order of their
\* registration, after two Connects and a Loop that has closed the Client
\* for an ERROR frame.
C22_Witness ==
  /\ LoopReturned /\ msg.cmd = "ERROR" /\ conn = 0
  /\ Hooks = <<"oper", "twitchstreams">>
  /\ dialed = 2

\* C24: when Loop reads a PING that has no parameter, Pong panics on the
\* first parameter: Loop is left by the panic, without a return value, no
\* PONG has been written or attempted, no hook has been called with the
\* frame, and the program takes no further step.
C24_EmptyPingPanics ==
  [][/\ (pc = "loop" /\ FrameRead' /\ msg'.cmd = "PING"
          /\ msg'.params = <<>>) =>
          /\ pc' = "panicked" /\ inLoop' /\ lastErr' = ErrPanic
          /\ events' = <<>> /\ results' = <<>> /\ hookIdx' = 0
          /\ UNCHANGED <<conn, rw, registered, open, lastCall>>
     /\ pc # "panicked"]_vars

\* Loop has panicked on a PING without parameters, with hooks registered.
C24_Witness ==
  /\ pc = "panicked" /\ inLoop /\ FrameRead
  /\ msg = [cmd |-> "PING", params |-> <<>>]
  /\ Hooks # <<>> /\ conn # 0 /\ events = <<>>

\* A step in which the program calls Connect.
ConnectStep == pc = "idle" /\ lastCall'.op = "Connect"

\* C21: a Connect whose dial fails has dialed once, returns the dial error
\* and leaves conn, rw and the flag (and the sockets) as they were.
C21_FailedConnect ==
  [][(ConnectStep /\ events'[1].kind = "dialfail") =>
       /\ events' = <<DialEv(FALSE)>>
       /\ lastErr' = ErrDial
       /\ UNCHANGED <<conn, rw, registered, open, dialed, pc>>]_vars

\* Connect has failed on a Client that is connected and registered.
C21_Witness ==
  /\ pc = "idle" /\ lastCall.op = "Connect" /\ lastErr = ErrDial
  /\ conn = 1 /\ rw = 1 /\ registered /\ open = {1}
  /\ events = <<DialEv(FALSE)>>

\* C26: a Connect that succeeds on a connected Client closes nothing: conn
\* and rw refer to the socket just dialed and the socket they referred to
\* stays open with nothing referring to it.  A Close closes the socket conn
\* refers to and no other, so the earlier socket stays open after it.
C26_ConnectLeaksPrevious ==
  [][/\ (ConnectStep /\ events' = <<DialEv(TRUE)>>) =>
          /\ conn' = dialed' /\ rw' = dialed' /\ conn' \notin open
          /\ open' = open \cup {conn'}
          /\ conn # 0 => (conn \in open' <=> conn \in open) /\ conn' # conn
     /\ CloseStep => open' = open \ {conn}
     /\ \A k \in open : (k # conn /\ k # conn') => k \in open']_vars

\* After two Connects and a Close the first socket is still open.
C26_Witness ==
  /\ pc = "idle" /\ lastCall.op = "Close" /\ conn = 0 /\ rw = 0
  /\ dialed = 2 /\ open = {1}
  /\ events = <<CloseEv>>

(***************************************************************************)
(* Properties of Register and of the generic senders, under SpecSenders.   *)
(***************************************************************************)
NickMsg == [cmd |-> "NICK", params |-> <<identity.nick>>]
UserMsg ==
  [cmd |-> "USER",
   params |-> <<identity.ident, <<48>>, <<42>>, identity.name>>]

\* C12: Register does nothing but send: at most a NICK with the nick and
\* then a USER with ident, "0", "*" and name, in that order.  When the NICK
\* is not sent, no USER is attempted and Register returns an error naming
\* NICK; when the NICK is sent and the USER is not, it returns an error
\* naming USER; otherwise both lines are written and it returns nil.
C12_RegisterOrder ==
  (lastCall.op = "Register" /\ lastErr # ErrPanic) =>
    /\ lastRead = "" /\ msg = NoMsg
    /\ \A i \in 1..Len(events) : events[i].kind \in {"write", "writefail"}
    /\ Len(events) <= 2 /\ Len(results) >= 1
    /\ Len(events) >= 1 => events[1].m = NickMsg
    /\ Len(events) = 2 => events[1].kind = "write" /\ events[2].m = UserMsg
    /\ results[1] # ErrNil =>
         /\ Len(results) = 1 /\ Writes(events) = <<>>
         /\ \A i \in 1..Len(events) : events[i].m.cmd # "USER"
         /\ lastErr \in {NickError(ErrIO), NickError(ErrEncode)}
    /\ results[1] = ErrNil =>
         /\ Len(results) = 2
         /\ events[1].kind = "write"
         /\ results[2] # ErrNil =>
              /\ Len(Writes(events)) = 1
              /\ lastErr \in {UserError(ErrIO), UserError(ErrEncode)}
         /\ results[2] = ErrNil =>
              /\ lastErr = ErrNil
              /\ Len(Writes(events)) = 2

\* The NICK write fails: one attempt, no USER.
C12_Witness ==
  /\ lastCall.op = "Register" /\ lastErr = NickError(ErrIO)
  /\ Len(events) = 1 /\ events[1].kind = "writefail"
  /\ events[1].m.cmd = "NICK"

GenericSenders == {"Join", "Quit", "Oper", "UserMode"}

\* The frame a generic sender is to send for its arguments.
FrameOf(a) ==
  CASE a.op = "Join"     -> [cmd |-> "JOIN", params |-> <<a.target>>]
    [] a.op = "Quit"     -> [cmd |-> "QUIT", params |-> <<a.message>>]
    [] a.op = "Oper"     -> [cmd |-> "OPER", params |-> <<a.target, a.message>>]
    [] a.op = "UserMode" -> [cmd |-> "MODE", params |-> <<a.target, a.message>>]

\* C19: Join, Quit, Oper and UserMode make one WriteMessage, of the frame
\* with their command (JOIN, QUIT, OPER, MODE) and their arguments in
\* order.  When the frame does not encode (truncation aside) they return
\* an error and nothing is written or attempted; otherwise the encoded
\* line, cut to the line limit or not, is the one line handed to the
\* transport, and when it is written they return nil.
C19_GenericSenders ==
  (lastCall.op \in GenericSenders /\ lastErr # ErrPanic) =>
    LET m == FrameOf(lastCall)
        e == Encode(m)
    IN  /\ results = <<lastErr>>
        /\ e.err \notin {ErrNil, ErrTruncated} =>
             lastErr = ErrEncode /\ events = <<>>
        /\ e.err \in {ErrNil, ErrTruncated} =>
             /\ Len(events) = 1 /\ events[1].m = m
             /\ lastErr \in {ErrNil, ErrIO}
             /\ lastErr = ErrNil <=> events[1].kind = "write"
             /\ lastErr = ErrIO <=> events[1].kind = "writefail"
             /\ events[1].kind = "write" => events[1].line = e.buf

\* A QUIT whose message passes the line limit was written, cut to 512
\* bytes, and Quit returned nil.
C19_Witness ==
  /\ lastCall.op = "Quit" /\ Len(lastCall.message) = MaxLineLength
  /\ lastErr = ErrNil
  /\ Len(events) = 1 /\ events[1].kind = "write"
  /\ Len(events[1].line) = MaxLineLength
  /\ Encode(FrameOf(lastCall)).err = ErrTruncated


(***************************************************************************)
(* Properties of the deadlines, under SpecTimeout.                         *)
(***************************************************************************)
\* The operations of one read or write under the timeout d: a ReadString
\* or WriteString comes right after a SetDeadline of d that succeeded, every
\* SetDeadline is of d, and a SetDeadline that failed is the last operation.
Rearmed(ops, d) ==
  /\ ops # <<>> /\ ops[1].op = "SetDeadline"
  /\ \A i \in 1..Len(ops) :
       /\ ops[i].op \in {"ReadString", "WriteString"} =>
            i > 1 /\ ops[i - 1] = TOp("SetDeadline", d, TRUE)
       /\ ops[i].op = "SetDeadline" =>
            ops[i].d = d /\ (~ops[i].ok => i = Len(ops))

\* The write of an entry of events did not get past its SetDeadline.
DeadlineFailed(e) ==
  e.kind = "writefail" /\ ~e.ops[Len(e.ops)].ok
    /\ e.ops[Len(e.ops)].op = "SetDeadline"

\* C20: the timeout of the Client is five minutes from New on and changes
\* in calls of SetTimeoutTime only.  Every read of Loop and every write of
\* a sender or of Loop's PONG sets the deadline from that timeout and reads
\* or writes right after it; when the deadline cannot be set nothing is
\* read or written: the write's caller gets an error and makes no further
\* write, and Loop returns an error from the read.
C20_DeadlineRearmed ==
  [][/\ lastCall'.op = "New" => timeoutTime' = 5
     /\ timeoutTime' # timeoutTime =>
          lastCall'.op \in {"New", "SetTimeoutTime"}
     /\ \A i \in 1..Len(events') :
          events'[i].kind \in {"write", "writefail"} =>
            /\ Rearmed(events'[i].ops, timeoutTime')
            /\ events'[i].kind = "write" =>
                 \E j \in 1..Len(events'[i].ops) :
                   events'[i].ops[j] = TOp("WriteString", 0, TRUE)
            /\ DeadlineFailed(events'[i]) =>
                 /\ events'[i].ops = <<TOp("SetDeadline", timeoutTime', FALSE)>>
                 /\ i < Len(events') => events'[i + 1].kind = "hook"
                 /\ i = Len(events') =>
                      results' # <<>> /\ results'[Len(results')] # ErrNil
     /\ (pc = "loop" /\ pc' # "panicked") =>
          /\ Rearmed(readOps', timeoutTime)
          /\ lastRead' = "deadline" <=>
               readOps' = <<TOp("SetDeadline", timeoutTime, FALSE)>>
          /\ lastRead' = "deadline" =>
               pc' = "idle" /\ ~inLoop' /\ lastErr' # ErrNil
          /\ lastRead' # "deadline" =>
               /\ Len(readOps') = 2 /\ readOps'[2].op = "ReadString"
               /\ FrameRead' => readOps'[2].ok]_vars

\* After SetTimeoutTime(1), Loop has read a frame and a hook has sent a
\* line, both under a deadline of one minute.
C20_Witness ==
  /\ inLoop /\ pc = "dispatch" /\ timeoutTime = 1
  /\ readOps = <<TOp("SetDeadline", 1, TRUE), TOp("ReadString", 0, TRUE)>>
  /\ hookIdx = 1 /\ Len(events) = 2
  /\ events[2].kind = "write"
  /\ events[2].ops[1] = TOp("SetDeadline", 1, TRUE)


(***************************************************************************)
(* Properties of a Client without a connection, under SpecNil.             *)
(***************************************************************************)
Senders == GenericSenders \cup {"Register", "Message"}

\* A step in which the program or a hook makes the call a.
CallStep(a) ==
  \E failAt \in FailAts(a) :
    ProgramCall(a, failAt, TRUE) \/ HookCall(a, failAt, TRUE)

Encodes(m) == Encode(m).err \in {ErrNil, ErrTruncated}

\* The call a gets as far as Client.write: its first frame encodes, and it
\* has a frame to send.
ReachesWrite(a) ==
  CASE a.op = "Register" -> Encodes(NickMsg)
    [] a.op = "Message"  ->
         /\ a.message # <<>>
         /\ Encodes([cmd |-> "PRIVMSG",
                     params |-> <<a.target,
                                  SubSeq(a.message, 1,
                                         Min(400, Len(a.message)))>>])
    [] OTHER             -> Encodes(FrameOf(a))

\* Loop does not notice that a hook has closed the Client: it goes on with
\* the hooks that are left and to its next read, which panics on the nil
\* conn; Loop called with a nil conn panics in the same way.
LoopCrashesOnNil ==
  /\ (pc = "dispatch" /\ conn = 0) =>
       inLoop' /\ pc' \in {"dispatch", "loop", "panicked"}
  /\ (pc = "loop" /\ conn = 0) =>
       /\ pc' = "panicked" /\ inLoop' /\ lastErr' = ErrPanic
       /\ events' = <<>>

TwitchUsers == {DefaultUsers[i] : i \in 1..Len(DefaultUsers)}
TwitchChannels == {Channels[i] : i \in 1..Len(Channels)}

\* Client.hooks calls the plugin's hook in this step.
HookStep ==
  /\ pc = "dispatch"
  /\ hookIdx' = hookIdx + 1
  /\ HookAt(hookIdx) = "twitchstreams"

\* What the calls of Message of this step's poll did: they come first in
\* the hook, each with one write.
Announced ==
  SubSeq(events', Len(events) + 2, Len(events) + 1 + polled'.sent)

\* The event e is a PRIVMSG to a configured channel telling that u is
\* streaming title.
Announces(e, u, title) ==
  /\ e.kind \in {"write", "writefail"}
  /\ e.m.cmd = "PRIVMSG"
  /\ Len(e.m.params) = 2
  /\ e.m.params[1] \in TwitchChannels
  /\ e.m.params[2] = u \o IsStreaming \o title

\* The result recorded for u before this step.
Recorded(u) ==
  IF u \in DOMAIN usernameStreaming
  THEN IF usernameStreaming[u] THEN "streaming" ELSE "not streaming"
  ELSE "never polled"

\* C23: the hook announces a user only in a poll that found a stream of the
\* user while the result recorded for the user was not-streaming; a user
\* never polled before, or recorded as streaming, is not announced; and a
\* user recorded as streaming stays so until a poll finds no stream of them.
\* The record changes in no other step.
C23_AnnouncesOnStart ==
  [][/\ HookStep =>
          /\ Len(events') >= Len(events) + 1 + polled'.sent
          /\ ~polled'.ran =>
               polled'.sent = 0 /\ usernameStreaming' = usernameStreaming
          /\ \A i \in 1..Len(Announced) :
               \E u \in TwitchUsers :
                 /\ u \in DOMAIN polled'.found
                 /\ ~polled'.found[u].err
                 /\ \E k \in 1..Len(polled'.found[u].streams) :
                      Announces(Announced[i], u, polled'.found[u].streams[k])
                 /\ Recorded(u) = "not streaming"
                 /\ usernameStreaming'[u]
          /\ \A u \in TwitchUsers :
               Recorded(u) # "not streaming" =>
                 \A i \in 1..Len(Announced), title \in {Live, Chess} :
                   ~Announces(Announced[i], u, title)
          /\ \A u \in TwitchUsers :
               Recorded(u) = "streaming" =>
                 \/ usernameStreaming'[u]
                 \/ /\ polled'.ran
                    /\ u \in DOMAIN polled'.found
                    /\ polled'.found[u] = Streams(<<>>)
          /\ DOMAIN usernameStreaming \subseteq DOMAIN usernameStreaming'
     /\ ~HookStep => usernameStreaming' = usernameStreaming]_vars

\* Witness for C23: bob, recorded as not streaming by the first poll, is
\* found with two streams by the second and announced to both channels.
C23_Witness ==
  /\ pc = "dispatch" /\ hookIdx = 1
  /\ polled.ran /\ polled.sent = 4
  /\ lastPollTime = 20
  /\ Bob \in DOMAIN usernameStreaming /\ usernameStreaming[Bob]
  /\ Len(events) >= 5
  /\ Announces(events[2], Bob, Live)
  /\ Announces(events[5], Bob, Chess)

====
